---- MODULE Spec2Model ----
(***************************************************************************)
(* Model of the resilient access layer of canny-mcp-server:                *)
(*   - mapHTTPError (src/src/utils/errors.ts): error classification        *)
(*   - withRetry    (src/src/utils/errors.ts): retry with backoff          *)
(*   - Cache        (utils/cache.ts): TTL + LRU cache                      *)
(*   - PaginationHandler (src/src/api/pagination.ts)                       *)
(* and of what the server builds on it:                                    *)
(*   - CannyMCPServer (src/src/server.ts): tool listing and tool calls     *)
(*   - canny_batch_update_status (src/src/tools/batch/status.ts)           *)
(*   - canny_list_categories and canny_create_category                     *)
(*     (src/src/tools/discovery/tags.ts) over the shared cache             *)
(* Each component has its own specification over the shared variables; a   *)
(* specification leaves the variables of the other components idle.        *)
(***************************************************************************)
EXTENDS Integers, Sequences, FiniteSets, TLC

VARIABLES
  \* ---- withRetry: one call ----
  pc,          \* "idle" | "attempt" (awaiting fn()) | "sleep" | "returned" | "thrown"
  maxRetries,  \* parameter maxRetries
  baseDelay,   \* parameter baseDelay (ms)
  attempt,     \* loop variable attempt
  lastError,   \* local lastError
  outcome,     \* the value returned or the error thrown by withRetry
  calls,       \* number of invocations of fn so far
  outcomes,    \* what each invocation of fn did, in order
  delays,      \* the sleep(ms) calls made so far, in order
  \* ---- mapHTTPError: one application ----
  cpc,         \* "idle" | "input" | "mapped"
  failure,     \* the argument of mapHTTPError
  mapped,      \* its result
  \* ---- Cache ----
  kpc,         \* "idle" | "ready"
  capacity,    \* maxSize given to the constructor
  entries,     \* key -> [value, expiresAt], for the stored keys
  order,       \* stored keys, least recently used first
  now,         \* the clock
  ret,         \* the last cache call and what it returned
  \* ---- PaginationHandler: one iteration of cursorPaginate or skipPaginate ----
  ppc,         \* "idle" | "loop" (at the while test) | "fetching" | "done" | "failed"
  strategy,    \* "cursor" (cursorPaginate) | "skip" (skipPaginate)
  limit,       \* options.limit
  maxTotal,    \* options.maxTotal
  cursor,      \* local cursor of cursorPaginate; "" is undefined
  skip,        \* local skip of skipPaginate
  totalFetched,\* local totalFetched
  nFetch,      \* number of fetchFn calls so far, counted up to FetchCap
  lastReq,     \* the arguments of the last fetchFn call
  lastResult,  \* what the last fetchFn call resolved to or rejected with
  yielded,     \* the batches yielded so far, in order
  iterErr,     \* the error the iteration has thrown to its consumer
  oversized,   \* some page held more items than the call asked for
  \* ---- PaginationHandler.getStrategy: a series of lookups ----
  gpc,         \* "idle" | "ready" | "called" | "returned"
  endpoint,    \* the argument of the current call
  found,       \* what the call returned
  nLookups,    \* number of calls so far
  \* ---- CannyMCPServer: tool listing and tool calls ----
  spc,         \* "idle" | "serving" | "handling" (awaiting a tool handler)
  variant,     \* "handlers" (server.ts: request handlers) | "registered" (registerTools)
  toolMode,    \* config.server.toolMode
  req,         \* the last request
  resp,        \* its response: a tool list, a result, or a thrown error
  ran,         \* the tool whose handler ran for the last request; "" when none did
  handlerError,\* what that handler threw, if it threw
  hadFailure,  \* some tool call so far ended in a failure of its handler
  \* ---- canny_batch_update_status: one call of the handler ----
  bpc,         \* "idle" | "called" | "waiting" (in Promise.allSettled) | "returned" | "thrown"
  postIDs,     \* the resolved post IDs
  paramsOk,    \* changerID and status pass validation
  results,     \* per position: "pending" | "fulfilled" | "rejected"
  batchResult, \* what the handler returned: successful and failed
  batchErr,    \* what the handler threw
  \* ---- canny_list_categories and canny_create_category on one board ----
  upstream,    \* number of categories the board has at Canny
  lpc,         \* per list call: "idle" | "fetching" | "responded"
  fetched,     \* per list call: the category list Canny answered with
  listed,      \* per list call: what the call returned last
  crpc,        \* per create call: pc "idle" | "creating" | "created", and the number of
               \* categories the board had once Canny had created this one
  acked,       \* the categories the board had after the latest creation whose call returned
  \* ---- concurrent withRetry calls ----
  inflight     \* per call: the locals and the observations of one withRetry call

retryVars == <<pc, maxRetries, baseDelay, attempt, lastError, outcome, calls, outcomes, delays>>
classifyVars == <<cpc, failure, mapped>>
cacheVars == <<kpc, capacity, entries, order, now, ret>>
pageVars == <<ppc, strategy, limit, maxTotal, cursor, skip, totalFetched, nFetch,
              lastReq, lastResult, yielded, iterErr, oversized>>
strategyVars == <<gpc, endpoint, found, nLookups>>
\* the components added to the access layer's four
serverVars == <<spc, variant, toolMode, req, resp, ran, handlerError, hadFailure>>
batchVars == <<bpc, postIDs, paramsOk, results, batchResult, batchErr>>
categoryVars == <<upstream, lpc, fetched, listed, crpc, acked>>
extVars == <<strategyVars, serverVars, batchVars, categoryVars, inflight>>
vars == <<retryVars, classifyVars, cacheVars, pageVars, extVars>>

----------------------------------------------------------------------------
(* Bounds of the model *)

\* largest maxRetries explored
MaxAttempts == 4

\* baseDelay values explored (ms)
BaseDelays == {0, 10, 50}

\* largest cache capacity explored; there is one key more than that
MaxCapacity == 2

\* the clock runs from 0 to MaxTime
MaxTime == 1

\* largest options.limit explored
MaxLimit == 2

\* largest options.maxTotal explored
MaxTotal == 4

\* largest number of items a page holds (a server may ignore the limit it is given)
MaxPage == 3

----------------------------------------------------------------------------
(* Error classes: CannyError and its subclasses, errors.ts 5-41 *)

\* new CannyAPIError(message, statusCode, retryable)
CannyAPIError(message, statusCode, retryable) ==
  [cls |-> "CannyAPIError", message |-> message, code |-> "CANNY_API_ERROR",
   statusCode |-> statusCode, retryable |-> retryable]

\* new RateLimitError(retryAfter); the number in the message is the field retryAfter
RateLimitError(retryAfter) ==
  [cls |-> "RateLimitError", message |-> "Rate limit exceeded. Retry after N seconds",
   code |-> "RATE_LIMIT_EXCEEDED", statusCode |-> 429, retryable |-> TRUE,
   retryAfter |-> retryAfter]

\* new ValidationError(message)
ValidationError(message) ==
  [cls |-> "ValidationError", message |-> message, code |-> "VALIDATION_ERROR",
   statusCode |-> 400, retryable |-> FALSE]

\* error instanceof CannyError
IsCannyError(error) ==
  error.cls \in {"CannyError", "CannyAPIError", "RateLimitError", "ValidationError"}

\* error instanceof RateLimitError
IsRateLimitError(error) == error.cls = "RateLimitError"

----------------------------------------------------------------------------
(* Raw transport failures: {response?: {status, data: {error}, headers}, statusCode?, message?} *)
(* A missing number is 0 and a missing string is "" : both are falsy for JavaScript's ||.      *)
(* The retry-after header is a decimal string, modelled as its sequence of digits.             *)

RawFailure(status, statusCode, dataError, message, retryAfterHeader) ==
  [cls |-> "raw", status |-> status, statusCode |-> statusCode, dataError |-> dataError,
   message |-> message, retryAfterHeader |-> retryAfterHeader]

\* the default of the retry-after header, '60'
DefaultRetryAfterHeader == <<6, 0>>

RECURSIVE parseInt(_)
\* parseInt(s, 10) of a decimal string
parseInt(s) ==
  IF Len(s) = 0 THEN 0
  ELSE 10 * parseInt(SubSeq(s, 1, Len(s) - 1)) + s[Len(s)]

\* a || b on numbers
OrNum(a, b) == IF a # 0 THEN a ELSE b

\* a || b on strings
OrStr(a, b) == IF a # "" THEN a ELSE b

\* a || b on the header string
OrHeader(a, b) == IF Len(a) # 0 THEN a ELSE b

\* mutant: no default status
StatusOf_NoDefault(error) == OrNum(error.status, error.statusCode)

\* const status = error.response?.status || error.statusCode || 500
StatusOf(error) == OrNum(OrNum(error.status, error.statusCode), 500)

\* const message = error.response?.data?.error || error.message || 'Unknown error'
MessageOf(error) == OrStr(OrStr(error.dataError, error.message), "Unknown error")

\* mutant: every 5xx status is taken as retryable
mapHTTPError_Any5xx(error) ==
  LET status == StatusOf(error)
      message == MessageOf(error)
  IN CASE status = 400 -> ValidationError(message)
       [] status = 401 -> CannyAPIError("Invalid API key. Check your configuration.", 401, FALSE)
       [] status = 403 -> CannyAPIError("Permission denied. Check your API key permissions.", 403, FALSE)
       [] status = 404 -> CannyAPIError("Resource not found. Verify IDs and permissions.", 404, FALSE)
       [] status = 429 ->
            RateLimitError(parseInt(OrHeader(error.retryAfterHeader, DefaultRetryAfterHeader)))
       [] status >= 500 ->
            CannyAPIError("Canny API error. Service may be temporarily unavailable.", status, TRUE)
       [] OTHER -> CannyAPIError(message, status, FALSE)

\* mapHTTPError(error), errors.ts 43-82
mapHTTPError(error) ==
  LET status == StatusOf(error)
      message == MessageOf(error)
  IN CASE status = 400 -> ValidationError(message)
       [] status = 401 -> CannyAPIError("Invalid API key. Check your configuration.", 401, FALSE)
       [] status = 403 -> CannyAPIError("Permission denied. Check your API key permissions.", 403, FALSE)
       [] status = 404 -> CannyAPIError("Resource not found. Verify IDs and permissions.", 404, FALSE)
       [] status = 429 ->
            RateLimitError(parseInt(OrHeader(error.retryAfterHeader, DefaultRetryAfterHeader)))
       [] status \in {500, 502, 503} ->
            CannyAPIError("Canny API error. Service may be temporarily unavailable.", status, TRUE)
       [] OTHER -> CannyAPIError(message, status, FALSE)

----------------------------------------------------------------------------
(* Idle values of the components a specification does not exercise *)

NoError == [cls |-> "none"]
NoValue == [cls |-> "novalue"]

RetryIdle ==
  /\ pc = "idle" /\ maxRetries = 0 /\ baseDelay = 0 /\ attempt = 0
  /\ lastError = NoError /\ outcome = NoValue /\ calls = 0
  /\ outcomes = <<>> /\ delays = <<>>

ClassifyIdle == cpc = "idle" /\ failure = NoError /\ mapped = NoError

\* the empty entry map
EmptyEntries == [k \in {} |-> 0]

CacheIdle ==
  /\ kpc = "idle" /\ capacity = 0 /\ entries = EmptyEntries /\ order = <<>>
  /\ now = 0 /\ ret = [op |-> "none"]

\* no fetchFn call yet
NoReq == [cls |-> "none"]

PageIdle ==
  /\ ppc = "idle" /\ strategy = "none" /\ limit = 0 /\ maxTotal = 0
  /\ cursor = "" /\ skip = 0 /\ totalFetched = 0 /\ nFetch = 0
  /\ lastReq = NoReq /\ lastResult = NoValue /\ yielded = <<>>
  /\ iterErr = NoError /\ oversized = FALSE

StrategyIdle == gpc = "idle" /\ endpoint = "" /\ found = "" /\ nLookups = 0

\* config.server.toolMode is undefined
Unset == [type |-> "undefined"]

ServerIdle ==
  /\ spc = "idle" /\ variant = "none" /\ toolMode = Unset /\ req = [op |-> "none"]
  /\ resp = [kind |-> "none"] /\ ran = "" /\ handlerError = NoError /\ hadFailure = FALSE

BatchIdle ==
  /\ bpc = "idle" /\ postIDs = <<>> /\ paramsOk = FALSE /\ results = <<>>
  /\ batchResult = NoValue /\ batchErr = NoError

CategoryIdle ==
  /\ upstream = 0 /\ lpc = <<>> /\ fetched = <<>> /\ listed = <<>> /\ crpc = <<>>
  /\ acked = 0

ConcurrentIdle == inflight = <<>>

ExtIdle == StrategyIdle /\ ServerIdle /\ BatchIdle /\ CategoryIdle /\ ConcurrentIdle

----------------------------------------------------------------------------
(* withRetry(fn, maxRetries, baseDelay), errors.ts 88-122 *)

\* what fn() may resolve to
Values == {[cls |-> "value", v |-> "success"], [cls |-> "value", v |-> "other"]}

\* what fn() may reject with: CannyErrors and raw transport failures
ThrownErrors ==
  { CannyAPIError("Server error", 500, TRUE),
    ValidationError("Invalid input"),
    RateLimitError(2),
    RawFailure(500, 0, "", "Request failed with status code 500", <<>>),
    RawFailure(0, 0, "", "Generic error", <<>>),
    RawFailure(400, 0, "Bad request", "", <<>>),
    RawFailure(429, 0, "", "", <<1>>),
    RawFailure(429, 0, "", "", <<>>) }

RECURSIVE Pow2(_)
\* Math.pow(2, n)
Pow2(n) == IF n = 0 THEN 1 ELSE 2 * Pow2(n - 1)

\* const cannyError = error instanceof CannyError ? error : mapHTTPError(error)
Classified(error) == IF IsCannyError(error) THEN error ELSE mapHTTPError(error)

\* mutant: the retryable flag is never consulted
NotRetryable_Never(cannyError) == FALSE

\* if (!cannyError.retryable) throw cannyError
NotRetryable(cannyError) == ~cannyError.retryable

\* mutant: the exponent counts the retry, not the failed attempt
BackoffDelay_OffByOne(cannyError, base, att) ==
  IF IsRateLimitError(cannyError)
  THEN cannyError.retryAfter * 1000
  ELSE base * Pow2(att + 1)

\* mutant: retryAfter taken as milliseconds
BackoffDelay_Seconds(cannyError, base, att) ==
  IF IsRateLimitError(cannyError)
  THEN cannyError.retryAfter
  ELSE base * Pow2(att)

\* const delay = cannyError instanceof RateLimitError ? ... : ...
BackoffDelay(cannyError, base, att) ==
  IF IsRateLimitError(cannyError)
  THEN cannyError.retryAfter * 1000
  ELSE base * Pow2(att)

\* mutant: the sleep is made after the last attempt too
ShouldSleep_Always(att, max) == att < max

\* if (attempt < maxRetries - 1) await sleep(delay)
ShouldSleep(att, max) == att < max - 1

\* mutant: one iteration too many
LoopContinues_OffByOne(att, max) == att <= max

\* the loop condition attempt < maxRetries
LoopContinues(att, max) == att < max

\* after attempt++ : the next iteration, or the loop ends and lastError is thrown
NextIteration(att, err) ==
  /\ attempt' = att
  /\ IF LoopContinues(att, maxRetries)
     THEN pc' = "attempt" /\ outcome' = outcome
     ELSE pc' = "thrown" /\ outcome' = err

\* withRetry is called
RetryInit ==
  /\ pc = "attempt"
  /\ maxRetries \in 1..MaxAttempts
  /\ baseDelay \in BaseDelays
  /\ attempt = 0
  /\ lastError = NoError
  /\ outcome = NoValue
  /\ calls = 0
  /\ outcomes = <<>>
  /\ delays = <<>>

\* mutant: the return is missing, so the loop goes on after a success
AttemptSucceeds_NoReturn(v) ==
  /\ pc = "attempt"
  /\ calls' = calls + 1
  /\ outcomes' = Append(outcomes, [attempt |-> attempt, ok |-> TRUE, value |-> v])
  /\ attempt' = attempt + 1
  /\ IF attempt + 1 < maxRetries
     THEN pc' = "attempt" /\ outcome' = outcome
     ELSE pc' = "thrown" /\ outcome' = lastError
  /\ UNCHANGED <<maxRetries, baseDelay, lastError, delays>>

\* return await fn(): fn resolves with v
AttemptSucceeds(v) ==
  /\ pc = "attempt"
  /\ calls' = calls + 1
  /\ outcomes' = Append(outcomes, [attempt |-> attempt, ok |-> TRUE, value |-> v])
  /\ pc' = "returned"
  /\ outcome' = v
  /\ UNCHANGED <<maxRetries, baseDelay, attempt, lastError, delays>>

\* fn rejects with error: the catch block, up to the next suspension or the end
AttemptFails(error) ==
  /\ pc = "attempt"
  /\ calls' = calls + 1
  /\ outcomes' = Append(outcomes, [attempt |-> attempt, ok |-> FALSE, error |-> error])
  /\ lastError' = error
  /\ LET cannyError == Classified(error)
         delay == BackoffDelay(cannyError, baseDelay, attempt)
     IN IF NotRetryable(cannyError)
        THEN /\ pc' = "thrown"
             /\ outcome' = cannyError
             /\ UNCHANGED <<attempt, delays>>
        ELSE IF ShouldSleep(attempt, maxRetries)
        THEN /\ pc' = "sleep"
             /\ delays' = Append(delays, [after |-> attempt, ms |-> delay])
             /\ UNCHANGED <<attempt, outcome>>
        ELSE /\ NextIteration(attempt + 1, error)
             /\ UNCHANGED delays
  /\ UNCHANGED <<maxRetries, baseDelay>>

\* the timer of sleep(delay) fires: attempt++ and the loop condition
SleepDone ==
  /\ pc = "sleep"
  /\ NextIteration(attempt + 1, lastError)
  /\ UNCHANGED <<maxRetries, baseDelay, lastError, calls, outcomes, delays>>

Init == RetryInit /\ ClassifyIdle /\ CacheIdle /\ PageIdle /\ ExtIdle

Next ==
  \/ (\E v \in Values : AttemptSucceeds(v)) /\ UNCHANGED <<classifyVars, cacheVars, pageVars, extVars>>
  \/ (\E error \in ThrownErrors : AttemptFails(error)) /\ UNCHANGED <<classifyVars, cacheVars, pageVars, extVars>>
  \/ SleepDone /\ UNCHANGED <<classifyVars, cacheVars, pageVars, extVars>>

Spec == Init /\ [][Next]_vars

----------------------------------------------------------------------------
(* Properties of withRetry, checked under Spec *)

Done == pc \in {"returned", "thrown"}

\* the i-th invocation of fn failed with an error withRetry classifies as retryable
RetryableFailure(i) == ~outcomes[i].ok /\ Classified(outcomes[i].error).retryable

\* the i-th invocation of fn failed with an error withRetry classifies as not retryable
NonRetryableFailure(i) == ~outcomes[i].ok /\ ~Classified(outcomes[i].error).retryable

\* C1: when withRetry fails, the error it throws is the classified error of the
\* last failure, also when fn threw a raw, unclassified failure (as claimed).
C1_ThrowsClassifiedLastFailure ==
  pc = "thrown" =>
    /\ Len(outcomes) >= 1
    /\ ~outcomes[Len(outcomes)].ok
    /\ outcome = Classified(outcomes[Len(outcomes)].error)

\* C2: when the first invocation of fn fails with an error classified as not
\* retryable, fn is invoked exactly once, no sleep is made and withRetry has
\* thrown the classified error, for every maxRetries >= 1 and every baseDelay.
C2_NoRetryOnNonRetryable ==
  (Len(outcomes) >= 1 /\ NonRetryableFailure(1)) =>
    /\ calls = 1
    /\ Len(outcomes) = 1
    /\ delays = <<>>
    /\ pc = "thrown"
    /\ outcome = Classified(outcomes[1].error)

C2_Witness ==
  /\ maxRetries = 3 /\ baseDelay = 10
  /\ Len(outcomes) = 1 /\ NonRetryableFailure(1)
  /\ outcomes[1].error = ValidationError("Invalid input")
  /\ pc = "thrown"

\* C3: fn is invoked at most maxRetries times; when every invocation failed with
\* a retryable error and withRetry has ended, it has thrown and fn was invoked
\* exactly maxRetries times.
C3_AtMostMaxAttempts ==
  /\ calls <= maxRetries
  /\ calls = Len(outcomes)
  /\ (Done /\ \A i \in 1..Len(outcomes) : RetryableFailure(i)) =>
       (pc = "thrown" /\ calls = maxRetries)
  /\ (calls = maxRetries /\ pc # "returned") => pc = "thrown"

C3_Witness ==
  /\ maxRetries = 3
  /\ pc = "thrown"
  /\ calls = 3
  /\ \A i \in 1..3 : RetryableFailure(i)

\* C4: the sleeps are exactly one per retry: the i-th sleep follows the retryable
\* failure of attempt i-1 < maxRetries-1, so a finished call has made
\* calls-1 sleeps, and none follows a success, a non-retryable failure or the
\* failure of the last attempt maxRetries-1.
C4_OneSuspensionPerRetry ==
  /\ \A i \in 1..Len(delays) :
       /\ delays[i].after = i - 1
       /\ i <= Len(outcomes)
       /\ RetryableFailure(i)
       /\ i - 1 < maxRetries - 1
  /\ Done => Len(delays) = calls - 1
  /\ pc = "sleep" => Len(delays) = calls
  /\ pc = "attempt" => Len(delays) = calls

C4_Witness ==
  /\ pc = "thrown"
  /\ maxRetries = 3
  /\ calls = 3
  /\ Len(delays) = 2
  /\ RetryableFailure(3)

\* C5: when fn fails with retryable errors on attempts 0..k-1 and succeeds on
\* attempt k, withRetry returns the value of attempt k and fn has been invoked
\* exactly k+1 times: a success is always the last invocation.
C5_ReturnsValueOfFirstSuccess ==
  \A k \in 1..Len(outcomes) :
    outcomes[k].ok =>
      /\ \A i \in 1..(k - 1) : RetryableFailure(i)
      /\ pc = "returned"
      /\ outcome = outcomes[k].value
      /\ calls = k
      /\ Len(outcomes) = k

C5_Witness ==
  /\ pc = "returned"
  /\ calls = 3
  /\ RetryableFailure(1) /\ RetryableFailure(2)
  /\ outcomes[3].ok
  /\ outcome = [cls |-> "value", v |-> "other"]

\* C6: the sleep after a retryable failure that is not a RateLimitError at
\* attempt index a lasts baseDelay * 2^a ms, a being the position of the failed
\* attempt in the call, whatever the earlier failures were.
C6_ExponentialBackoff ==
  \A i \in 1..Len(delays) :
    ~IsRateLimitError(Classified(outcomes[i].error)) =>
      delays[i].ms = baseDelay * Pow2(i - 1)

C6_Witness ==
  /\ baseDelay = 50
  /\ Len(delays) = 3
  /\ IsRateLimitError(Classified(outcomes[1].error))
  /\ ~IsRateLimitError(Classified(outcomes[2].error))
  /\ ~IsRateLimitError(Classified(outcomes[3].error))
  /\ delays[2].ms = 100
  /\ delays[3].ms = 200

\* C7: the sleep after a RateLimitError lasts retryAfter * 1000 ms at every
\* attempt index and for every baseDelay.
C7_RateLimitDelay ==
  \A i \in 1..Len(delays) :
    IsRateLimitError(Classified(outcomes[i].error)) =>
      delays[i].ms = Classified(outcomes[i].error).retryAfter * 1000

C7_Witness ==
  /\ baseDelay = 50
  /\ Len(delays) = 2
  /\ ~IsRateLimitError(Classified(outcomes[1].error))
  /\ outcomes[2].error = RateLimitError(2)
  /\ delays[2].ms = 2000

----------------------------------------------------------------------------
(* mapHTTPError applied to one raw failure *)

\* error.response?.status: 0 when there is no response or no status
ResponseStatuses == {0, 200, 400, 401, 403, 404, 422, 429, 500, 502, 503, 504}

\* error.statusCode: 0 when missing
StatusCodes == {0, 400, 404, 422, 429, 500, 503}

RawFailures ==
  { RawFailure(st, sc, de, msg, h) :
      st \in ResponseStatuses, sc \in StatusCodes,
      de \in {"", "Bad request"}, msg \in {"", "Network error"},
      h \in {<<>>, <<0>>, <<1, 2, 0>>} }

\* a failure reaches the classifier
ClassifyInit ==
  /\ cpc = "input"
  /\ failure \in RawFailures
  /\ mapped = NoError

\* mapped = mapHTTPError(failure)
MapError ==
  /\ cpc = "input"
  /\ mapped' = mapHTTPError(failure)
  /\ cpc' = "mapped"
  /\ UNCHANGED failure

InitClassify == RetryIdle /\ ClassifyInit /\ CacheIdle /\ PageIdle /\ ExtIdle

NextClassify == MapError /\ UNCHANGED <<retryVars, cacheVars, pageVars, extVars>>

SpecClassify == InitClassify /\ [][NextClassify]_vars

\* the status code the failure carries: the response's, else its own; 0 when none
CarriedStatus(f) == IF f.status # 0 THEN f.status ELSE f.statusCode

\* C8: for a failure that carries a status code, retryable is false for 400, 401,
\* 403 and 404, true for 429, 500, 502 and 503, and false for every other code.
C8_RetryablePerStatus ==
  (cpc = "mapped" /\ CarriedStatus(failure) # 0) =>
    /\ mapped.statusCode = CarriedStatus(failure)
    /\ mapped.retryable = (CarriedStatus(failure) \in {429, 500, 502, 503})

C8_Witness ==
  /\ cpc = "mapped"
  /\ failure.status = 504
  /\ failure.statusCode = 500
  /\ mapped.retryable = FALSE

\* C9 as claimed: a failure with no status code at all is mapped to status 500
\* with retryable = false and the message of the body or the failure.
C9_MissingStatusNotRetryable ==
  (cpc = "mapped" /\ CarriedStatus(failure) = 0) =>
    /\ mapped.cls = "CannyAPIError"
    /\ mapped.statusCode = 500
    /\ mapped.retryable = FALSE
    /\ mapped.message = MessageOf(failure)

\* C9 as amended: a failure with no status code at all is mapped like status 500:
\* a CannyAPIError with status 500, retryable = true and the fixed server message.
C9_MissingStatusIsRetryable500 ==
  (cpc = "mapped" /\ CarriedStatus(failure) = 0) =>
    /\ mapped.cls = "CannyAPIError"
    /\ mapped.statusCode = 500
    /\ mapped.retryable = TRUE
    /\ mapped.message = "Canny API error. Service may be temporarily unavailable."

C9_Witness ==
  /\ cpc = "mapped"
  /\ failure.status = 0 /\ failure.statusCode = 0
  /\ failure.message = "Network error"
  /\ mapped.statusCode = 500

----------------------------------------------------------------------------
(* Cache(maxSize): set, get, has, delete, clear, size *)

Keys == 1..(MaxCapacity + 1)

CacheValues == {"value1", "value2"}

\* ttl values given to set, in clock units
TTLs == {0, 1}

\* size()
size == Cardinality(DOMAIN entries)

RECURSIVE Without(_, _)
\* the sequence s without the key k
Without(s, k) ==
  IF s = <<>> THEN <<>>
  ELSE IF Head(s) = k THEN Without(Tail(s), k)
  ELSE <<Head(s)>> \o Without(Tail(s), k)

\* the entry map without the key k
Removed(es, k) == [j \in DOMAIN es \ {k} |-> es[j]]

\* the entry map with k bound to e
Stored(es, k, e) == [j \in DOMAIN es \cup {k} |-> IF j = k THEN e ELSE es[j]]

\* mutant: the expiry bound is exclusive
Expired_Exclusive(e, t) == t > e.expiresAt

\* now >= expiresAt
Expired(e, t) == t >= e.expiresAt

\* mutant: the most recently used key is evicted
Victim_Newest(ord) == ord[Len(ord)]

\* the key to evict: the least recently used one
Victim(ord) == Head(ord)

\* mutant: the eviction test is off by one
MustEvict_OffByOne(n, cap) == n > cap

\* a new key is about to be stored in a cache of n entries: evict first?
MustEvict(n, cap) == n >= cap

\* new Cache(maxSize)
CacheInit ==
  /\ kpc = "ready"
  /\ capacity \in 1..MaxCapacity
  /\ entries = EmptyEntries
  /\ order = <<>>
  /\ now = 0
  /\ ret = [op |-> "new"]

\* mutant: overwriting a stored key leaves its place in the recency order
Set_OverwriteKeepsPlace(k, v, ttl) ==
  /\ kpc = "ready"
  /\ LET e == [value |-> v, expiresAt |-> now + ttl]
     IN IF k \in DOMAIN entries
        THEN /\ entries' = Stored(entries, k, e)
             /\ order' = order
             /\ ret' = [op |-> "set", key |-> k, value |-> v, ttl |-> ttl, existed |-> TRUE, evicted |-> 0]
        ELSE IF MustEvict(size, capacity)
        THEN /\ entries' = Stored(Removed(entries, Victim(order)), k, e)
             /\ order' = Append(Without(order, Victim(order)), k)
             /\ ret' = [op |-> "set", key |-> k, value |-> v, ttl |-> ttl, existed |-> FALSE, evicted |-> Victim(order)]
        ELSE /\ entries' = Stored(entries, k, e)
             /\ order' = Append(order, k)
             /\ ret' = [op |-> "set", key |-> k, value |-> v, ttl |-> ttl, existed |-> FALSE, evicted |-> 0]
  /\ UNCHANGED <<kpc, capacity, now>>

\* set(key, value, ttl)
Set(k, v, ttl) ==
  /\ kpc = "ready"
  /\ LET e == [value |-> v, expiresAt |-> now + ttl]
     IN IF k \in DOMAIN entries
        THEN /\ entries' = Stored(entries, k, e)
             /\ order' = Append(Without(order, k), k)
             /\ ret' = [op |-> "set", key |-> k, value |-> v, ttl |-> ttl, existed |-> TRUE, evicted |-> 0]
        ELSE IF MustEvict(size, capacity)
        THEN /\ entries' = Stored(Removed(entries, Victim(order)), k, e)
             /\ order' = Append(Without(order, Victim(order)), k)
             /\ ret' = [op |-> "set", key |-> k, value |-> v, ttl |-> ttl, existed |-> FALSE, evicted |-> Victim(order)]
        ELSE /\ entries' = Stored(entries, k, e)
             /\ order' = Append(order, k)
             /\ ret' = [op |-> "set", key |-> k, value |-> v, ttl |-> ttl, existed |-> FALSE, evicted |-> 0]
  /\ UNCHANGED <<kpc, capacity, now>>

\* mutant: a lookup that finds its entry expired sweeps every expired entry
Get_SweepAll(k) ==
  /\ kpc = "ready"
  /\ IF k \notin DOMAIN entries
     THEN /\ ret' = [op |-> "get", key |-> k, value |-> "null", purged |-> FALSE]
          /\ UNCHANGED <<entries, order>>
     ELSE IF Expired(entries[k], now)
     THEN /\ entries' = [j \in {i \in DOMAIN entries : ~Expired(entries[i], now)} |-> entries[j]]
          /\ order' = SelectSeq(order, LAMBDA i : ~Expired(entries[i], now))
          /\ ret' = [op |-> "get", key |-> k, value |-> "null", purged |-> TRUE]
     ELSE /\ order' = Append(Without(order, k), k)
          /\ ret' = [op |-> "get", key |-> k, value |-> entries[k].value, purged |-> FALSE]
          /\ UNCHANGED entries
  /\ UNCHANGED <<kpc, capacity, now>>

\* get(key)
Get(k) ==
  /\ kpc = "ready"
  /\ IF k \notin DOMAIN entries
     THEN /\ ret' = [op |-> "get", key |-> k, value |-> "null", purged |-> FALSE]
          /\ UNCHANGED <<entries, order>>
     ELSE IF Expired(entries[k], now)
     THEN /\ entries' = Removed(entries, k)
          /\ order' = Without(order, k)
          /\ ret' = [op |-> "get", key |-> k, value |-> "null", purged |-> TRUE]
     ELSE /\ order' = Append(Without(order, k), k)
          /\ ret' = [op |-> "get", key |-> k, value |-> entries[k].value, purged |-> FALSE]
          /\ UNCHANGED entries
  /\ UNCHANGED <<kpc, capacity, now>>

\* has(key)
Has(k) ==
  /\ kpc = "ready"
  /\ IF k \notin DOMAIN entries
     THEN /\ ret' = [op |-> "has", key |-> k, found |-> FALSE, purged |-> FALSE]
          /\ UNCHANGED <<entries, order>>
     ELSE IF Expired(entries[k], now)
     THEN /\ entries' = Removed(entries, k)
          /\ order' = Without(order, k)
          /\ ret' = [op |-> "has", key |-> k, found |-> FALSE, purged |-> TRUE]
     ELSE /\ ret' = [op |-> "has", key |-> k, found |-> TRUE, purged |-> FALSE]
          /\ UNCHANGED <<entries, order>>
  /\ UNCHANGED <<kpc, capacity, now>>

\* mutant: the deleted key stays in the recency order
Delete_LeavesOrder(k) ==
  /\ kpc = "ready"
  /\ entries' = Removed(entries, k)
  /\ order' = order
  /\ ret' = [op |-> "delete", key |-> k, existed |-> k \in DOMAIN entries]
  /\ UNCHANGED <<kpc, capacity, now>>

\* delete(key)
Delete(k) ==
  /\ kpc = "ready"
  /\ entries' = Removed(entries, k)
  /\ order' = Without(order, k)
  /\ ret' = [op |-> "delete", key |-> k, existed |-> k \in DOMAIN entries]
  /\ UNCHANGED <<kpc, capacity, now>>

\* clear()
Clear ==
  /\ kpc = "ready"
  /\ entries' = EmptyEntries
  /\ order' = <<>>
  /\ ret' = [op |-> "clear"]
  /\ UNCHANGED <<kpc, capacity, now>>

\* time passes between two calls
Tick ==
  /\ kpc = "ready"
  /\ now < MaxTime
  /\ now' = now + 1
  /\ UNCHANGED <<kpc, capacity, entries, order, ret>>

InitCache == RetryIdle /\ ClassifyIdle /\ CacheInit /\ PageIdle /\ ExtIdle

NextCache ==
  \/ (\E k \in Keys, v \in CacheValues, ttl \in TTLs : Set(k, v, ttl))
       /\ UNCHANGED <<retryVars, classifyVars, pageVars, extVars>>
  \/ (\E k \in Keys : Get(k)) /\ UNCHANGED <<retryVars, classifyVars, pageVars, extVars>>
  \/ (\E k \in Keys : Has(k)) /\ UNCHANGED <<retryVars, classifyVars, pageVars, extVars>>
  \/ (\E k \in Keys : Delete(k)) /\ UNCHANGED <<retryVars, classifyVars, pageVars, extVars>>
  \/ Clear /\ UNCHANGED <<retryVars, classifyVars, pageVars, extVars>>
  \/ Tick /\ UNCHANGED <<retryVars, classifyVars, pageVars, extVars>>

SpecCache == InitCache /\ [][NextCache]_vars

\* C10: for a cache of capacity c >= 1, size() <= c after every call of set, get,
\* has, delete or clear, in any sequence; the recency order lists the stored keys.
C10_CapacityInvariant ==
  kpc = "ready" =>
    /\ capacity >= 1
    /\ size <= capacity
    /\ Len(order) = size
    /\ {order[i] : i \in 1..Len(order)} = DOMAIN entries

C10_Witness ==
  /\ ret.op = "set"
  /\ ret.evicted # 0
  /\ size = capacity
  /\ capacity = MaxCapacity

\* the step is a call of the cache (time does not pass during a call); ret' then
\* describes that call
CallStep == now' = now /\ ret'.op # "new"

\* the entry of key k has reached its expiry (inclusive bound)
Stale(k) == k \in DOMAIN entries /\ now >= entries[k].expiresAt

\* the entry of key k is stored and has not reached its expiry
Live(k) == k \in DOMAIN entries /\ now < entries[k].expiresAt

\* C11: a lookup never returns an entry whose expiry has been reached: when
\* now >= expiresAt (inclusive) get returns null and has returns false, and a get
\* that returns a value returns the value of an entry with now < expiresAt.
C11_NoExpiredEntryReturned ==
  [][CallStep =>
       /\ ret'.op = "get" =>
            /\ Stale(ret'.key) => ret'.value = "null"
            /\ ret'.value # "null" => (Live(ret'.key) /\ ret'.value = entries[ret'.key].value)
       /\ ret'.op = "has" =>
            /\ Stale(ret'.key) => ~ret'.found
            /\ ret'.found => Live(ret'.key)]_vars

\* a get at time 0 found its entry expired: the entry was set with ttl 0
C11_Witness ==
  /\ ret.op = "get"
  /\ ret.purged
  /\ ret.value = "null"
  /\ now = 0

\* C12: when set stores a new key in a cache that holds capacity entries, exactly
\* one entry is evicted, the least recently used one, and every other entry keeps
\* its value and expiry; the recency order is the order of the last set or
\* successful get of each key.
C12_EvictsLeastRecentlyUsed ==
  [][CallStep =>
       /\ (ret'.op = "set" /\ ret'.key \notin DOMAIN entries /\ size = capacity) =>
            /\ DOMAIN entries' = (DOMAIN entries \ {order[1]}) \cup {ret'.key}
            /\ Cardinality(DOMAIN entries') = capacity
            /\ \A j \in DOMAIN entries \ {order[1]} : entries'[j] = entries[j]
            /\ order' = Append(Tail(order), ret'.key)
            /\ ret'.evicted = order[1]
       /\ (ret'.op = "set" /\ ret'.key \notin DOMAIN entries /\ size < capacity) =>
            /\ DOMAIN entries' = DOMAIN entries \cup {ret'.key}
            /\ order' = Append(order, ret'.key)
       /\ (ret'.op = "get" /\ ret'.value # "null") =>
            order' = Append(Without(order, ret'.key), ret'.key)
       /\ (ret'.op = "get" /\ ret'.value = "null") => order' = Without(order, ret'.key)
       /\ (ret'.op = "has" /\ ret'.found) => order' = order
       /\ (ret'.op = "has" /\ ~ret'.found) => order' = Without(order, ret'.key)]_vars

\* keys 1 and 2 were stored at full capacity and key 3 has taken the place of 2
C12_Witness ==
  /\ capacity = 2
  /\ ret.op = "set" /\ ret.key = 3 /\ ret.evicted = 2
  /\ order = <<1, 3>>
  /\ DOMAIN entries = {1, 3}

\* C13: set on a stored key evicts nothing, also at capacity: the stored keys and
\* size() are unchanged, every other key keeps its entry, the key holds the new
\* value with expiry now + ttl, and the key is the most recently used.
C13_OverwriteIsAUse ==
  [][(CallStep /\ ret'.op = "set" /\ ret'.key \in DOMAIN entries) =>
       /\ DOMAIN entries' = DOMAIN entries
       /\ Cardinality(DOMAIN entries') = size
       /\ \A j \in DOMAIN entries \ {ret'.key} : entries'[j] = entries[j]
       /\ entries'[ret'.key] = [value |-> ret'.value, expiresAt |-> now + ret'.ttl]
       /\ order'[Len(order')] = ret'.key
       /\ Without(order', ret'.key) = Without(order, ret'.key)
       /\ ret'.evicted = 0]_vars

\* a full cache whose least recently used key has been overwritten
C13_Witness ==
  /\ ret.op = "set" /\ ret.existed
  /\ capacity = MaxCapacity
  /\ size = capacity
  /\ order[Len(order)] = ret.key
  /\ ret.value = "value2"
  /\ entries[ret.key] = [value |-> "value2", expiresAt |-> now + ret.ttl]

\* C14: expiry is lazy: an entry leaves the cache only by a get or has on its own
\* key that finds it expired, a delete of its key, a clear or an eviction, so time
\* passing removes nothing; the get or has that finds its entry expired returns
\* null/false and removes that entry alone, lowering size() by one.
C14_LazyExpiry ==
  [][/\ \A j \in DOMAIN entries \ DOMAIN entries' :
          \/ ret'.op \in {"get", "has"} /\ ret'.key = j /\ Stale(j)
          \/ ret'.op = "delete" /\ ret'.key = j
          \/ ret'.op = "clear"
          \/ ret'.op = "set" /\ ret'.evicted = j
     /\ now' # now => entries' = entries
     /\ (CallStep /\ ret'.op \in {"get", "has"} /\ Stale(ret'.key)) =>
          /\ DOMAIN entries' = DOMAIN entries \ {ret'.key}
          /\ Cardinality(DOMAIN entries') = size - 1
          /\ \A j \in DOMAIN entries' : entries'[j] = entries[j]
          /\ order' = Without(order, ret'.key)
          /\ ret'.op = "get" => ret'.value = "null"
          /\ ret'.op = "has" => ~ret'.found]_vars

\* a has purged its expired entry while another expired entry is still counted
C14_Witness ==
  /\ ret.op = "has" /\ ret.purged /\ ~ret.found
  /\ size >= 1
  /\ \E j \in DOMAIN entries : now >= entries[j].expiresAt

\* C15: delete(key) removes exactly that key and leaves the entry and the recency
\* of every other key unchanged; on a key that is not stored it changes nothing
\* and returns normally; clear() leaves size() = 0 and no key stored.
C15_DeleteAndClear ==
  [][CallStep =>
       /\ ret'.op = "delete" =>
            /\ DOMAIN entries' = DOMAIN entries \ {ret'.key}
            /\ \A j \in DOMAIN entries' : entries'[j] = entries[j]
            /\ order' = Without(order, ret'.key)
            /\ ret'.key \notin DOMAIN entries => (entries' = entries /\ order' = order)
       /\ ret'.op = "clear" =>
            /\ Cardinality(DOMAIN entries') = 0
            /\ order' = <<>>
            /\ \A k \in Keys : k \notin DOMAIN entries']_vars

\* a stored key was deleted from a cache that keeps another entry
C15_Witness ==
  /\ ret.op = "delete" /\ ret.existed
  /\ size >= 1
  /\ ret.key \notin DOMAIN entries
  /\ Len(order) = size

----------------------------------------------------------------------------
(* PaginationHandler.cursorPaginate and skipPaginate, pagination.ts 35-93 *)

\* fetchFn calls are counted up to this number
FetchCap == MaxTotal + 2

\* result.cursor: "" is a missing cursor
Cursors == {"", "c1", "c2"}

\* a page of n items
Items(n) == [i \in 1..n |-> i]

\* what fetchFn may resolve to in cursorPaginate
CursorPages ==
  { [cls |-> "page", data |-> Items(n), hasMore |-> h, cursor |-> c] :
      n \in 0..MaxPage, h \in BOOLEAN, c \in Cursors }

\* what fetchFn may resolve to in skipPaginate
SkipPages ==
  { [cls |-> "page", data |-> Items(n), hasMore |-> h] : n \in 0..MaxPage, h \in BOOLEAN }

\* what fetchFn may reject with
PageErrors == { CannyAPIError("Server error", 500, TRUE), RateLimitError(2) }

\* Math.min(a, b)
Min(a, b) == IF a <= b THEN a ELSE b

RECURSIVE SumLen(_)
\* the number of items in a sequence of batches
SumLen(batches) ==
  IF batches = <<>> THEN 0 ELSE Len(Head(batches)) + SumLen(Tail(batches))

\* mutant: the loop runs once more when the budget is used up
LoopTest_Inclusive(total, max) == total <= max

\* while (totalFetched < maxTotal)
LoopTest(total, max) == total < max

\* mutant: every call asks for limit items
BatchSize_IgnoresBudget(lim, max, total) == lim

\* const batchSize = Math.min(limit, maxTotal - totalFetched)
BatchSize(lim, max, total) == Min(lim, max - total)

\* mutant: hasMore is not consulted
CursorBreak_IgnoresHasMore(result) == result.cursor = ""

\* cursorPaginate: if (!result.hasMore || !result.cursor) break
CursorBreak(result) == ~result.hasMore \/ result.cursor = ""

\* mutant: a short page does not end the iteration
SkipBreak_TrustsHasMore(result, batchSize) == ~result.hasMore

\* skipPaginate: if (!result.hasMore || result.data.length < batchSize) break
SkipBreak(result, batchSize) == ~result.hasMore \/ Len(result.data) < batchSize

\* cursorPaginate(fetchFn, options) or skipPaginate(fetchFn, options) is iterated
PageInit ==
  /\ ppc = "loop"
  /\ strategy \in {"cursor", "skip"}
  /\ limit \in 1..MaxLimit
  /\ maxTotal \in 0..MaxTotal
  /\ cursor = ""
  /\ skip = 0
  /\ totalFetched = 0
  /\ nFetch = 0
  /\ lastReq = NoReq
  /\ lastResult = NoValue
  /\ yielded = <<>>
  /\ iterErr = NoError
  /\ oversized = FALSE

\* the while test holds: fetchFn(cursor, batchSize) or fetchFn(skip, batchSize) is called
CallFetch ==
  /\ ppc = "loop"
  /\ LoopTest(totalFetched, maxTotal)
  /\ LET batchSize == BatchSize(limit, maxTotal, totalFetched)
     IN lastReq' = IF strategy = "cursor"
                   THEN [cls |-> "cursor", cursor |-> cursor, limit |-> batchSize]
                   ELSE [cls |-> "skip", skip |-> skip, limit |-> batchSize]
  /\ nFetch' = Min(nFetch + 1, FetchCap)
  /\ ppc' = "fetching"
  /\ UNCHANGED <<strategy, limit, maxTotal, cursor, skip, totalFetched, lastResult,
                 yielded, iterErr, oversized>>

\* the while test fails: the generator returns
LoopEnds ==
  /\ ppc = "loop"
  /\ ~LoopTest(totalFetched, maxTotal)
  /\ ppc' = "done"
  /\ UNCHANGED <<strategy, limit, maxTotal, cursor, skip, totalFetched, nFetch, lastReq,
                 lastResult, yielded, iterErr, oversized>>

\* if (result.data.length > 0) { yield result.data; totalFetched += result.data.length }
YieldPage(result) ==
  /\ lastResult' = result
  /\ oversized' = (oversized \/ Len(result.data) > lastReq.limit)
  /\ IF Len(result.data) > 0
     THEN /\ yielded' = Append(yielded, result.data)
          /\ totalFetched' = totalFetched + Len(result.data)
     ELSE UNCHANGED <<yielded, totalFetched>>

\* mutant: the cursor of the first page is sent with every later call
CursorReturns_KeepsFirstCursor(result) ==
  /\ ppc = "fetching"
  /\ strategy = "cursor"
  /\ YieldPage(result)
  /\ IF CursorBreak(result)
     THEN ppc' = "done" /\ cursor' = cursor
     ELSE ppc' = "loop" /\ cursor' = IF cursor = "" THEN result.cursor ELSE cursor
  /\ UNCHANGED <<strategy, limit, maxTotal, skip, nFetch, lastReq, iterErr>>

\* cursorPaginate: fetchFn resolves with result; the rest of the loop body
CursorReturns(result) ==
  /\ ppc = "fetching"
  /\ strategy = "cursor"
  /\ YieldPage(result)
  /\ IF CursorBreak(result)
     THEN ppc' = "done" /\ cursor' = cursor
     ELSE ppc' = "loop" /\ cursor' = result.cursor
  /\ UNCHANGED <<strategy, limit, maxTotal, skip, nFetch, lastReq, iterErr>>

\* mutant: skip counts pages, not items
SkipReturns_CountsPages(result) ==
  /\ ppc = "fetching"
  /\ strategy = "skip"
  /\ YieldPage(result)
  /\ IF SkipBreak(result, lastReq.limit)
     THEN ppc' = "done" /\ skip' = skip
     ELSE ppc' = "loop" /\ skip' = skip + 1
  /\ UNCHANGED <<strategy, limit, maxTotal, cursor, nFetch, lastReq, iterErr>>

\* skipPaginate: fetchFn resolves with result; the rest of the loop body
SkipReturns(result) ==
  /\ ppc = "fetching"
  /\ strategy = "skip"
  /\ YieldPage(result)
  /\ IF SkipBreak(result, lastReq.limit)
     THEN ppc' = "done" /\ skip' = skip
     ELSE ppc' = "loop" /\ skip' = skip + Len(result.data)
  /\ UNCHANGED <<strategy, limit, maxTotal, cursor, nFetch, lastReq, iterErr>>

\* mutant: a rejected fetchFn call is swallowed and the loop goes on
FetchThrows_Swallowed(error) ==
  /\ ppc = "fetching"
  /\ lastResult' = error
  /\ ppc' = "loop"
  /\ UNCHANGED <<strategy, limit, maxTotal, cursor, skip, totalFetched, nFetch, lastReq,
                 yielded, iterErr, oversized>>

\* fetchFn rejects with error: neither generator catches, the iteration throws it
FetchThrows(error) ==
  /\ ppc = "fetching"
  /\ lastResult' = error
  /\ iterErr' = error
  /\ ppc' = "failed"
  /\ UNCHANGED <<strategy, limit, maxTotal, cursor, skip, totalFetched, nFetch, lastReq,
                 yielded, oversized>>

InitPage == RetryIdle /\ ClassifyIdle /\ CacheIdle /\ PageInit /\ ExtIdle

NextPage ==
  \/ CallFetch /\ UNCHANGED <<retryVars, classifyVars, cacheVars, extVars>>
  \/ LoopEnds /\ UNCHANGED <<retryVars, classifyVars, cacheVars, extVars>>
  \/ (\E result \in CursorPages : CursorReturns(result))
       /\ UNCHANGED <<retryVars, classifyVars, cacheVars, extVars>>
  \/ (\E result \in SkipPages : SkipReturns(result))
       /\ UNCHANGED <<retryVars, classifyVars, cacheVars, extVars>>
  \/ (\E error \in PageErrors : FetchThrows(error))
       /\ UNCHANGED <<retryVars, classifyVars, cacheVars, extVars>>

SpecPage == InitPage /\ [][NextPage]_vars

\* the consumer keeps pulling and every fetchFn call settles
SpecPageLive == InitPage /\ [][NextPage]_vars /\ WF_vars(NextPage)

\* the iteration has ended: the generator returned or threw
PageEnded == ppc \in {"done", "failed"}

\* fetchFn has just settled
Settles == ppc = "fetching" /\ ppc' # "fetching"
\* C16 as claimed: every iteration of cursorPaginate ends after finitely many
\* fetchFn calls, whatever fetchFn returns (limit >= 1, maxTotal finite).
C16_CursorPaginateEnds == (strategy = "cursor" /\ limit >= 1) ~> PageEnded

\* C17 as claimed: when the first fetchFn call of cursorPaginate returns
\* hasMore = false, exactly one batch has been yielded and the iteration is over.
C17_ExactlyOneBatch ==
  (strategy = "cursor" /\ nFetch = 1 /\ lastResult.cls = "page" /\ ~lastResult.hasMore) =>
    (ppc = "done" /\ Len(yielded) = 1)

\* C17 as amended: when the first fetchFn call of cursorPaginate returns
\* hasMore = false, the iteration ends there with no second fetchFn call, having
\* yielded that page as its only batch, or no batch when the page is empty.
C17_FirstPageWithoutMoreEnds ==
  [][/\ (strategy = "cursor" /\ Settles /\ nFetch = 1
           /\ lastResult'.cls = "page" /\ ~lastResult'.hasMore) =>
          /\ ppc' = "done"
          /\ yielded' = IF lastResult'.data = <<>> THEN <<>> ELSE <<lastResult'.data>>
          /\ nFetch' = 1
     /\ ppc = "done" => UNCHANGED pageVars]_vars

C17_Witness ==
  /\ strategy = "cursor"
  /\ ppc = "done"
  /\ nFetch = 1
  /\ ~lastResult.hasMore /\ lastResult.cursor = "c1"
  /\ yielded = <<Items(2)>>

\* C18: skipPaginate ends right after a page that holds fewer items than the
\* batchSize asked for, also when the page says hasMore = true, and right after a
\* page with hasMore = false; once ended it makes no fetchFn call.
C18_SkipStopsOnShortPage ==
  [][/\ (strategy = "skip" /\ Settles /\ lastResult'.cls = "page"
           /\ (Len(lastResult'.data) < lastReq.limit \/ ~lastResult'.hasMore)) =>
          /\ ppc' = "done"
          /\ nFetch' = nFetch
     /\ (strategy = "skip" /\ ppc = "done") => UNCHANGED pageVars]_vars

C18_Witness ==
  /\ strategy = "skip"
  /\ ppc = "done"
  /\ nFetch = 2
  /\ lastResult.hasMore
  /\ lastReq.limit = 2 /\ lastReq.skip = 2
  /\ Len(lastResult.data) = 1
  /\ Len(yielded) = 2

\* C19: for both strategies a fetchFn call is made only while totalFetched <
\* maxTotal and asks for min(limit, maxTotal - totalFetched) items; totalFetched is
\* the number of items yielded, and it never exceeds maxTotal as long as no page
\* held more items than its call asked for.
C19_BudgetRespected ==
  /\ ppc = "fetching" =>
       /\ totalFetched < maxTotal
       /\ lastReq.limit = Min(limit, maxTotal - totalFetched)
       /\ lastReq.limit >= 1
  /\ ppc # "idle" => totalFetched = SumLen(yielded)
  /\ (ppc # "idle" /\ ~oversized) => SumLen(yielded) <= maxTotal

C19_Witness ==
  /\ ppc = "done"
  /\ ~oversized
  /\ limit = 2 /\ maxTotal = 3
  /\ nFetch = 2
  /\ lastReq.limit = 1
  /\ SumLen(yielded) = 3

\* C20: an error fetchFn rejects with is thrown by the iteration as it is and
\* ends it: no fetchFn call and no batch follows, and the batches yielded before
\* are the same.
C20_FetchErrorEndsIteration ==
  [][/\ (Settles /\ lastResult'.cls # "page") =>
          /\ ppc' = "failed"
          /\ iterErr' = lastResult'
          /\ yielded' = yielded
          /\ nFetch' = nFetch
     /\ ppc = "failed" => UNCHANGED pageVars]_vars

C20_Witness ==
  /\ ppc = "failed"
  /\ iterErr = RateLimitError(2)
  /\ lastResult = iterErr
  /\ Len(yielded) = 2
  /\ nFetch = 3

\* C25: in skipPaginate the skip of every fetchFn call is the number of items yielded
\* by the pages before it, 0 on the first call, and equals totalFetched.
C25_SkipIsItemsYielded ==
  (strategy = "skip" /\ ppc = "fetching") =>
    /\ lastReq.skip = SumLen(yielded)
    /\ lastReq.skip = totalFetched
    /\ nFetch = 1 => lastReq.skip = 0

\* the third call of an iteration that took a page of two items and a page of one
C25_Witness ==
  /\ strategy = "skip"
  /\ ppc = "fetching"
  /\ nFetch = 3
  /\ Len(yielded) = 2 /\ Len(yielded[1]) = 2 /\ Len(yielded[2]) = 1
  /\ lastReq.skip = 3

\* C26: in cursorPaginate the first fetchFn call gets no cursor and every later call gets
\* the cursor of the page just before it; no empty page is among the batches yielded.
C26_CursorChain ==
  strategy = "cursor" =>
    /\ ppc = "fetching" =>
         IF nFetch = 1 THEN lastReq.cursor = ""
         ELSE lastReq.cursor = lastResult.cursor /\ lastReq.cursor # ""
    /\ \A i \in DOMAIN yielded : Len(yielded[i]) > 0

\* the third call: the first page gave cursor c1, the second was empty and gave c2
C26_Witness ==
  /\ strategy = "cursor"
  /\ ppc = "fetching"
  /\ nFetch = 3
  /\ lastResult.data = <<>>
  /\ lastReq.cursor = "c2"
  /\ Len(yielded) = 1

\* C27: skipPaginate with limit >= 1 makes at most maxTotal fetchFn calls, none when
\* maxTotal is 0, and every iteration ends, whatever the pages hold.
C27_SkipPaginateEnds ==
  /\ []((strategy = "skip" /\ limit >= 1) => nFetch <= maxTotal)
  /\ (strategy = "skip" /\ limit >= 1) ~> PageEnded

\* an iteration that needed all of its maxTotal calls: four pages of one item
C27_Witness ==
  /\ strategy = "skip"
  /\ ppc = "done"
  /\ maxTotal = MaxTotal
  /\ nFetch = maxTotal
  /\ Len(yielded) = maxTotal

----------------------------------------------------------------------------
(* PaginationHandler.getStrategy(endpoint), pagination.ts 19-30 *)

\* the four components of the access layer, for the specifications below
coreVars == <<retryVars, classifyVars, cacheVars, pageVars>>
CoreIdle == RetryIdle /\ ClassifyIdle /\ CacheIdle /\ PageIdle

\* largest number of getStrategy calls in a row
MaxLookups == 3

\* the object literal strategies: its own properties
strategies ==
  [e \in {"posts/list", "votes/list", "comments/list",
          "boards/list", "tags/list", "categories/list"} |->
     IF e \in {"posts/list", "votes/list", "comments/list"} THEN "skip" ELSE "none"]

\* the properties every object literal inherits from Object.prototype
ObjectPrototype ==
  {"constructor", "toString", "toLocaleString", "valueOf", "hasOwnProperty",
   "isPrototypeOf", "propertyIsEnumerable", "__proto__",
   "__defineGetter__", "__defineSetter__", "__lookupGetter__", "__lookupSetter__"}

\* the value of an inherited property: a function or an object, never a strategy
Inherited(name) == "Object.prototype"

\* no such property
Undefined == ""

\* obj[key]: the own property, else the inherited one, else undefined
PropertyOf(obj, key) ==
  IF key \in DOMAIN obj THEN obj[key]
  ELSE IF key \in ObjectPrototype THEN Inherited(key)
  ELSE Undefined

\* a || b on property values: undefined is the only falsy one here
OrStrategy(a, b) == IF a = Undefined THEN b ELSE a

\* return strategies[endpoint] || 'none'
getStrategy(e) == OrStrategy(PropertyOf(strategies, e), "none")

\* the endpoint names looked up: the table's, unknown ones, and names of inherited properties
Endpoints ==
  DOMAIN strategies \cup {"users/list", "posts", "posts/retrieve"} \cup ObjectPrototype

\* type PaginationStrategy
PaginationStrategy == {"cursor", "skip", "none"}

StrategyInit == gpc = "ready" /\ endpoint = "" /\ found = "" /\ nLookups = 0

\* getStrategy(e) is called
CallGetStrategy(e) ==
  /\ gpc \in {"ready", "returned"}
  /\ nLookups < MaxLookups
  /\ gpc' = "called"
  /\ endpoint' = e
  /\ nLookups' = nLookups + 1
  /\ UNCHANGED found

\* it returns
GetStrategyReturns ==
  /\ gpc = "called"
  /\ found' = getStrategy(endpoint)
  /\ gpc' = "returned"
  /\ UNCHANGED <<endpoint, nLookups>>

InitStrategy ==
  CoreIdle /\ StrategyInit /\ ServerIdle /\ BatchIdle /\ CategoryIdle /\ ConcurrentIdle

NextStrategy ==
  \/ (\E e \in Endpoints : CallGetStrategy(e)) /\ UNCHANGED <<coreVars, serverVars, batchVars, categoryVars, inflight>>
  \/ GetStrategyReturns /\ UNCHANGED <<coreVars, serverVars, batchVars, categoryVars, inflight>>

SpecStrategy == InitStrategy /\ [][NextStrategy]_vars

\* C21: getStrategy returns 'none' for 'boards/list', 'skip' for 'posts/list' and 'none'
\* for every name that is not in its table, and its result is always one of cursor,
\* skip and none.
C21_StrategyLookup ==
  gpc = "returned" =>
    /\ endpoint = "boards/list" => found = "none"
    /\ endpoint = "posts/list" => found = "skip"
    /\ endpoint \notin DOMAIN strategies => found = "none"
    /\ found \in PaginationStrategy

----------------------------------------------------------------------------
(* CannyMCPServer: tool listing and tool calls.                                       *)
(* Two builds of the server are in the repository: server.ts answers the list and     *)
(* call requests in its own handlers; the later one (registerTools) registers the      *)
(* available tools with the SDK's McpServer, which lists and dispatches them.          *)

\* an MCPTool: the fields the server reads
Tool(name, readOnly, toolset) == [name |-> name, readOnly |-> readOnly, toolset |-> toolset]

\* ALL_TOOLS, tools/index.ts 32-69, with each tool's readOnly and toolset
ALL_TOOLS ==
  << Tool("canny_list_boards", TRUE, "discovery"),
     Tool("canny_list_tags", TRUE, "discovery"),
     Tool("canny_list_categories", TRUE, "discovery"),
     Tool("canny_list_posts", TRUE, "discovery"),
     Tool("canny_get_post", TRUE, "discovery"),
     Tool("canny_create_post", FALSE, "posts"),
     Tool("canny_update_post", FALSE, "posts"),
     Tool("canny_update_post_status", FALSE, "posts"),
     Tool("canny_change_category", FALSE, "posts"),
     Tool("canny_create_category", FALSE, "discovery"),
     Tool("canny_list_comments", TRUE, "engagement"),
     Tool("canny_create_comment", FALSE, "engagement"),
     Tool("canny_delete_comment", FALSE, "engagement"),
     Tool("canny_list_votes", TRUE, "engagement"),
     Tool("canny_add_vote", FALSE, "engagement"),
     Tool("canny_remove_vote", FALSE, "engagement"),
     Tool("canny_find_or_create_user", FALSE, "users"),
     Tool("canny_get_user_details", TRUE, "users"),
     Tool("canny_list_companies", TRUE, "users"),
     Tool("canny_link_company", FALSE, "users"),
     Tool("canny_link_jira_issue", FALSE, "jira"),
     Tool("canny_unlink_jira_issue", FALSE, "jira"),
     Tool("canny_batch_update_status", FALSE, "batch"),
     Tool("canny_batch_tag", FALSE, "batch"),
     Tool("canny_batch_merge", FALSE, "batch") >>

\* getToolByName found nothing
NoTool == [name |-> "", readOnly |-> FALSE, toolset |-> ""]

\* ALL_TOOLS.find((tool) => tool.name === name)
getToolByName(name) ==
  LET hits == {i \in DOMAIN ALL_TOOLS : ALL_TOOLS[i].name = name}
  IN IF hits = {} THEN NoTool
     ELSE ALL_TOOLS[CHOOSE i \in hits : \A j \in hits : i <= j]

\* toolMode values: a boolean, or a string given by its parts between commas
BoolMode(b) == [type |-> "boolean", value |-> b]
StrMode(parts) == [type |-> "string", parts |-> parts]

\* t.trim() for the parts that occur below
Trim(t) ==
  CASE t = " engagement" -> "engagement"
    [] t = " users " -> "users"
    [] t = " posts" -> "posts"
    [] OTHER -> t

\* toolMode.split(',').map(t => t.trim())
SelectedToolsets(mode) == {Trim(mode.parts[i]) : i \in DOMAIN mode.parts}

\* toolMode !== undefined ? toolMode : 'readonly'
EffectiveToolMode(configured) ==
  IF configured # Unset THEN configured ELSE StrMode(<<"readonly">>)

\* toolMode === 'readonly' || toolMode === true
IsReadOnlyMode(mode) == mode = StrMode(<<"readonly">>) \/ mode = BoolMode(TRUE)

\* toolMode === 'all' || toolMode === false
IsAllMode(mode) == mode = StrMode(<<"all">>) \/ mode = BoolMode(FALSE)

\* typeof toolMode === 'string' && toolMode !== 'all' && toolMode !== 'readonly'
IsToolsetList(mode) ==
  mode.type = "string" /\ mode # StrMode(<<"all">>) /\ mode # StrMode(<<"readonly">>)

\* mutant: an unset toolMode gives every tool
getAvailableTools_DefaultAll(configured) ==
  LET mode == EffectiveToolMode(configured)
  IN IF configured = Unset THEN ALL_TOOLS
     ELSE IF IsReadOnlyMode(mode) THEN SelectSeq(ALL_TOOLS, LAMBDA tool : tool.readOnly)
     ELSE IF IsAllMode(mode) THEN ALL_TOOLS
     ELSE IF IsToolsetList(mode)
          THEN SelectSeq(ALL_TOOLS, LAMBDA tool : tool.toolset \in SelectedToolsets(mode))
     ELSE ALL_TOOLS

\* the tools a toolMode makes available (ListTools handler; getAvailableTools)
getAvailableTools(configured) ==
  LET mode == EffectiveToolMode(configured)
  IN IF IsReadOnlyMode(mode) THEN SelectSeq(ALL_TOOLS, LAMBDA tool : tool.readOnly)
     ELSE IF IsAllMode(mode) THEN ALL_TOOLS
     ELSE IF IsToolsetList(mode)
          THEN SelectSeq(ALL_TOOLS, LAMBDA tool : tool.toolset \in SelectedToolsets(mode))
     ELSE ALL_TOOLS

\* the tool list sent to the client: name (description and inputSchema with it)
Listing(tools) == [kind |-> "tools", tools |-> [i \in DOMAIN tools |-> tools[i].name]]

\* a request handler throws new Error(message)
Thrown(message) == [kind |-> "thrown", message |-> message]

\* const RESPONSE_CHARACTER_LIMIT = 50_000
RESPONSE_CHARACTER_LIMIT == 50000

\* what a tool handler returns, by the length of its JSON text
ToolValue(id, chars) == [cls |-> "value", id |-> id, chars |-> chars]
ToolValues == {ToolValue("small", 120), ToolValue("large", 60000)}

\* new Error(message): no code
PlainError(message) == [cls |-> "Error", message |-> message, code |-> ""]

\* what a tool handler throws
ToolErrors ==
  {PlainError("At least one field must be provided to update"),
   ValidationError("boardID is required"),
   CannyAPIError("Server error", 500, TRUE),
   RateLimitError(2)}

\* the result of a call whose handler returned: JSON.stringify(result, null, 2), cut to
\* the character limit where the server has one
ToolResult(value, limited) ==
  [kind |-> "result", isError |-> FALSE,
   text |-> [id |-> value.id,
             chars |-> IF limited /\ value.chars > RESPONSE_CHARACTER_LIMIT
                       THEN RESPONSE_CHARACTER_LIMIT ELSE value.chars,
             truncated |-> limited /\ value.chars > RESPONSE_CHARACTER_LIMIT]]

\* mutant: the code is passed on as it is, missing or not
ErrorCode_NoDefault(error) == error.code

\* error.code || 'TOOL_ERROR'
ErrorCode(error) == IF error.code = "" THEN "TOOL_ERROR" ELSE error.code

\* the result of a call whose handler threw: {error: message, code}, isError: true
ToolErrorResult(error) ==
  [kind |-> "result", isError |-> TRUE,
   text |-> [error |-> error.message, code |-> ErrorCode(error)]]

\* the request is refused before any handler runs: the request handler throws
Refuse(message) ==
  /\ ran' = ""
  /\ handlerError' = NoError
  /\ resp' = Thrown(message)
  /\ UNCHANGED <<spc, hadFailure>>

\* await tool.handler(args, context)
Invoke(tool) ==
  /\ ran' = tool.name
  /\ handlerError' = NoError
  /\ resp' = [kind |-> "pending"]
  /\ spc' = "handling"
  /\ UNCHANGED hadFailure

\* the toolMode values configured
ToolModes ==
  {Unset, BoolMode(TRUE), BoolMode(FALSE), StrMode(<<"readonly">>), StrMode(<<"all">>),
   StrMode(<<"discovery", "engagement", "users">>),
   StrMode(<<"discovery", " engagement", " users ">>),
   StrMode(<<"discovery">>), StrMode(<<"engagement">>), StrMode(<<"batch">>),
   StrMode(<<"discovery", " posts">>), StrMode(<<"">>)}

\* the tool names a client asks for
RequestedNames == {ALL_TOOLS[i].name : i \in DOMAIN ALL_TOOLS} \cup {"canny_no_such_tool"}

ServerInit ==
  /\ spc = "serving"
  /\ variant \in {"handlers", "registered"}
  /\ toolMode \in ToolModes
  /\ req = [op |-> "none"]
  /\ resp = [kind |-> "none"]
  /\ ran = ""
  /\ handlerError = NoError
  /\ hadFailure = FALSE

\* tools/list: server.ts 73-105; McpServer lists what registerTools registered
ListTools ==
  /\ spc = "serving"
  /\ req' = [op |-> "list"]
  /\ resp' = Listing(getAvailableTools(toolMode))
  /\ ran' = ""
  /\ handlerError' = NoError
  /\ UNCHANGED <<spc, variant, toolMode, hadFailure>>

\* tools/call in server.ts 108-145: up to the call of the handler
CallTool(name) ==
  /\ spc = "serving"
  /\ variant = "handlers"
  /\ req' = [op |-> "call", name |-> name]
  /\ LET tool == getToolByName(name)
         mode == EffectiveToolMode(toolMode)
     IN IF tool = NoTool THEN Refuse("Unknown tool")
        ELSE IF IsReadOnlyMode(mode) /\ ~tool.readOnly
             THEN Refuse("Tool is not available in read-only mode")
        ELSE IF IsToolsetList(mode) /\ tool.toolset \notin SelectedToolsets(mode)
             THEN Refuse("Tool is not available")
        ELSE Invoke(tool)
  /\ UNCHANGED <<variant, toolMode>>

\* tools/call with registerTools: McpServer runs the callback registered under the name
CallRegisteredTool(name) ==
  /\ spc = "serving"
  /\ variant = "registered"
  /\ req' = [op |-> "call", name |-> name]
  /\ LET registered == getAvailableTools(toolMode)
         hits == {i \in DOMAIN registered : registered[i].name = name}
     IN IF hits = {} THEN Refuse("Tool not found")
        ELSE Invoke(registered[CHOOSE i \in hits : TRUE])
  /\ UNCHANGED <<variant, toolMode>>

\* the handler returns value: the call's result is its JSON text
HandlerReturns(value) ==
  /\ spc = "handling"
  /\ resp' = ToolResult(value, variant = "registered")
  /\ spc' = "serving"
  /\ UNCHANGED <<variant, toolMode, req, ran, handlerError, hadFailure>>

\* the handler throws error: the catch block turns it into a result
HandlerThrows(error) ==
  /\ spc = "handling"
  /\ resp' = ToolErrorResult(error)
  /\ handlerError' = error
  /\ hadFailure' = TRUE
  /\ spc' = "serving"
  /\ UNCHANGED <<variant, toolMode, req, ran>>

InitServer ==
  CoreIdle /\ StrategyIdle /\ ServerInit /\ BatchIdle /\ CategoryIdle /\ ConcurrentIdle

NextServer ==
  \/ ListTools /\ UNCHANGED <<coreVars, strategyVars, batchVars, categoryVars, inflight>>
  \/ (\E name \in RequestedNames : CallTool(name)) /\ UNCHANGED <<coreVars, strategyVars, batchVars, categoryVars, inflight>>
  \/ (\E name \in RequestedNames : CallRegisteredTool(name))
       /\ UNCHANGED <<coreVars, strategyVars, batchVars, categoryVars, inflight>>
  \/ (\E value \in ToolValues : HandlerReturns(value)) /\ UNCHANGED <<coreVars, strategyVars, batchVars, categoryVars, inflight>>
  \/ (\E error \in ToolErrors : HandlerThrows(error)) /\ UNCHANGED <<coreVars, strategyVars, batchVars, categoryVars, inflight>>

SpecServer == InitServer /\ [][NextServer]_vars

\* the names of the tools with readOnly = true, and of those with readOnly = false
ReadOnlyNames == {ALL_TOOLS[i].name : i \in {j \in DOMAIN ALL_TOOLS : ALL_TOOLS[j].readOnly}}
WriteNames == {ALL_TOOLS[i].name : i \in {j \in DOMAIN ALL_TOOLS : ~ALL_TOOLS[j].readOnly}}

\* the names in a tool list
Listed(r) == {r.tools[i] : i \in DOMAIN r.tools}

\* C22: with toolMode unset, 'readonly' or true, the tool list holds exactly the tools
\* with readOnly = true, a call of a tool with readOnly = false is refused with an error
\* and no handler runs for it, whatever was called before, and the read-only tools run.
C22_ReadOnlyModeBlocksWrites ==
  (spc # "idle" /\ toolMode \in {Unset, StrMode(<<"readonly">>), BoolMode(TRUE)}) =>
    /\ resp.kind = "tools" => Listed(resp) = ReadOnlyNames
    /\ (req.op = "call" /\ req.name \in WriteNames) => (resp.kind = "thrown" /\ ran = "")
    /\ (req.op = "call" /\ req.name \in ReadOnlyNames) => ran = req.name
    /\ ran # "" => ran \in ReadOnlyNames

\* a write tool was called with toolMode unset, after a read-only tool ran and failed
C22_Witness ==
  /\ toolMode = Unset
  /\ hadFailure
  /\ req = [op |-> "call", name |-> "canny_create_post"]
  /\ resp.kind = "thrown"
  /\ ran = ""

\* C23 as claimed: with toolMode 'discovery,engagement,users' every read operation is
\* available and no tool with readOnly = false is listed or run.
C23_ToolsetListIsReadOnly ==
  (spc # "idle" /\ toolMode = StrMode(<<"discovery", "engagement", "users">>)) =>
    /\ resp.kind = "tools" =>
         (ReadOnlyNames \subseteq Listed(resp) /\ Listed(resp) \cap WriteNames = {})
    /\ (req.op = "call" /\ req.name \in ReadOnlyNames) => ran = req.name
    /\ ran # "" => ran \in ReadOnlyNames

\* C30: when a tool handler throws, the call returns a result with isError = true whose
\* text holds the error's message and its code ('TOOL_ERROR' when it has none) and
\* nothing else; the calls after a failure are served as any other: the listed tools run,
\* the others are refused, and a handler that returns gives a result without isError.
C30_HandlerFailureIsAResult ==
  /\ (spc = "serving" /\ handlerError # NoError) =>
       /\ resp.kind = "result" /\ resp.isError
       /\ DOMAIN resp.text = {"error", "code"}
       /\ resp.text.error = handlerError.message
       /\ resp.text.code \in {handlerError.code, "TOOL_ERROR"}
       /\ resp.text.code # ""
       /\ resp.text.code = "TOOL_ERROR" => handlerError.code \in {"", "TOOL_ERROR"}
  /\ (hadFailure /\ req.op = "call" /\ spc = "serving") =>
       /\ ran = req.name <=> req.name \in Listed(Listing(getAvailableTools(toolMode)))
       /\ ran = "" <=> resp.kind = "thrown"
       /\ (ran # "" /\ handlerError = NoError) => (resp.kind = "result" /\ ~resp.isError)

\* a handler threw an error without a code, and a later call of the tool returned
C30_Witness ==
  /\ hadFailure
  /\ spc = "serving"
  /\ handlerError = NoError
  /\ resp.kind = "result" /\ ~resp.isError
  /\ ran = "canny_list_boards"

----------------------------------------------------------------------------
(* canny_batch_update_status: batchUpdateStatus.handler, tools/batch/status.ts 48-101 *)

\* largest number of post IDs in one call
MaxBatch == 3

\* the post IDs that occur; a list may name a post twice
PostIDValues == {"post1", "post2"}

\* the lists of at most n post IDs
RECURSIVE PostIDLists(_)
PostIDLists(n) ==
  IF n = 0 THEN {<<>>}
  ELSE PostIDLists(n - 1)
         \cup {Append(l, id) : l \in {m \in PostIDLists(n - 1) : Len(m) = n - 1},
                               id \in PostIDValues}

\* mutant: the first failed status change ends the report
Report_StopsAtFirstFailure(ids, settled, index, acc) ==
  LET RECURSIVE Go(_, _)
      Go(i, a) ==
        IF i > Len(ids) THEN a
        ELSE IF settled[i] = "fulfilled"
             THEN Go(i + 1, [a EXCEPT !.successful = Append(@, ids[i])])
             ELSE [a EXCEPT !.failed = Append(@, ids[i])]
  IN Go(index, acc)

\* results.forEach((result, index) => ...) from position index on: a fulfilled result
\* pushes postIDs[index] to successful, a rejected one to failed
Report(ids, settled, index, acc) ==
  LET RECURSIVE Go(_, _)
      Go(i, a) ==
        IF i > Len(ids) THEN a
        ELSE IF settled[i] = "fulfilled"
             THEN Go(i + 1, [a EXCEPT !.successful = Append(@, ids[i])])
             ELSE Go(i + 1, [a EXCEPT !.failed = Append(@, ids[i])])
  IN Go(index, acc)

BatchInit ==
  /\ bpc = "called"
  /\ postIDs \in PostIDLists(MaxBatch)
  /\ paramsOk \in BOOLEAN
  /\ results = <<>>
  /\ batchResult = NoValue
  /\ batchErr = NoError

\* validateRequired / validateStatus throw
ValidationFails ==
  /\ bpc = "called"
  /\ ~paramsOk
  /\ batchErr' = ValidationError("Invalid status")
  /\ bpc' = "thrown"
  /\ UNCHANGED <<postIDs, paramsOk, results, batchResult>>

\* if (!Array.isArray(postIDs) || postIDs.length === 0) throw new Error(...)
EmptyListFails ==
  /\ bpc = "called"
  /\ paramsOk
  /\ Len(postIDs) = 0
  /\ batchErr' = PlainError("Either postIDs or urls must be provided and non-empty")
  /\ bpc' = "thrown"
  /\ UNCHANGED <<postIDs, paramsOk, results, batchResult>>

\* postIDs.map((postID) => client.changePostStatus(...)): every status change is started
StartAll ==
  /\ bpc = "called"
  /\ paramsOk
  /\ Len(postIDs) > 0
  /\ results' = [i \in DOMAIN postIDs |-> "pending"]
  /\ bpc' = "waiting"
  /\ UNCHANGED <<postIDs, paramsOk, batchResult, batchErr>>

\* the status change of position i completes
StatusChanged(i) ==
  /\ bpc = "waiting"
  /\ results[i] = "pending"
  /\ results' = [results EXCEPT ![i] = "fulfilled"]
  /\ UNCHANGED <<bpc, postIDs, paramsOk, batchResult, batchErr>>

\* the status change of position i fails
StatusChangeFails(i) ==
  /\ bpc = "waiting"
  /\ results[i] = "pending"
  /\ results' = [results EXCEPT ![i] = "rejected"]
  /\ UNCHANGED <<bpc, postIDs, paramsOk, batchResult, batchErr>>

\* Promise.allSettled resolves once every promise has settled; the handler reports
AllSettled ==
  /\ bpc = "waiting"
  /\ \A i \in DOMAIN results : results[i] # "pending"
  /\ batchResult' = Report(postIDs, results, 1, [successful |-> <<>>, failed |-> <<>>])
  /\ bpc' = "returned"
  /\ UNCHANGED <<postIDs, paramsOk, results, batchErr>>

InitBatch ==
  CoreIdle /\ StrategyIdle /\ ServerIdle /\ BatchInit /\ CategoryIdle /\ ConcurrentIdle

NextBatch ==
  \/ ValidationFails /\ UNCHANGED <<coreVars, strategyVars, serverVars, categoryVars, inflight>>
  \/ EmptyListFails /\ UNCHANGED <<coreVars, strategyVars, serverVars, categoryVars, inflight>>
  \/ StartAll /\ UNCHANGED <<coreVars, strategyVars, serverVars, categoryVars, inflight>>
  \/ (\E i \in DOMAIN results : StatusChanged(i))
       /\ UNCHANGED <<coreVars, strategyVars, serverVars, categoryVars, inflight>>
  \/ (\E i \in DOMAIN results : StatusChangeFails(i))
       /\ UNCHANGED <<coreVars, strategyVars, serverVars, categoryVars, inflight>>
  \/ AllSettled /\ UNCHANGED <<coreVars, strategyVars, serverVars, categoryVars, inflight>>

SpecBatch == InitBatch /\ [][NextBatch]_vars

\* the positions whose status change ended as how
PositionsOf(how) == {i \in DOMAIN results : results[i] = how}

\* list holds the post IDs of the positions in S, in input order
HoldsInOrder(list, S) ==
  /\ Len(list) = Cardinality(S)
  /\ \A i \in S : list[Cardinality({j \in S : j < i}) + 1] = postIDs[i]

\* C24: for valid parameters and a non-empty list of post IDs the handler does not throw,
\* every status change is started whatever the others do, and the report holds every
\* input position once: successful holds, in input order, the IDs of the positions
\* whose status change completed, and failed those of the others.
C24_PerPostReport ==
  (bpc # "idle" /\ paramsOk /\ Len(postIDs) > 0) =>
    /\ bpc # "thrown"
    /\ bpc \in {"waiting", "returned"} => DOMAIN results = DOMAIN postIDs
    /\ bpc = "returned" =>
         /\ HoldsInOrder(batchResult.successful, PositionsOf("fulfilled"))
         /\ HoldsInOrder(batchResult.failed, PositionsOf("rejected"))
         /\ Len(batchResult.successful) + Len(batchResult.failed) = Len(postIDs)

\* the first of three status changes failed and the other two completed, one post named twice
C24_Witness ==
  /\ bpc = "returned"
  /\ postIDs = <<"post1", "post2", "post1">>
  /\ results = <<"rejected", "fulfilled", "fulfilled">>
  /\ batchResult = [successful |-> <<"post2", "post1">>, failed |-> <<"post1">>]

----------------------------------------------------------------------------
(* canny_list_categories and canny_create_category, tools/discovery/tags.ts 76-160, *)
(* called concurrently for one board over the server's one cache.  A handler runs    *)
(* without interruption between two awaits; Canny answers a request some time after  *)
(* it was sent, and the handler resumes some time after the answer.                  *)

\* largest number of categories created
MaxCreates == 2

\* the concurrent list calls and create calls
ListCalls == 1..2
CreateCalls == 1..2

\* `categories:board:${boardID}` for the one board
CategoriesKey == 1

\* cache.set(cacheKey, result, 3600)
CategoriesTTL == 3600

\* {categories: compact} when the board has n categories
CategoryList(n) ==
  <<"0 categories", "1 category", "2 categories", "3 categories", "4 categories">>[n + 1]

\* the number of categories in a category list
CountOf(list) ==
  CHOOSE n \in 0..MaxCreates : CategoryList(n) = list

CategoryInit ==
  /\ upstream = 0
  /\ lpc = [p \in ListCalls |-> "idle"]
  /\ fetched = [p \in ListCalls |-> "null"]
  /\ listed = [p \in ListCalls |-> "null"]
  /\ crpc = [c \in CreateCalls |-> [pc |-> "idle", at |-> 0]]
  /\ acked = 0

\* listCategories.handler up to its await: cache.get; a hit is returned, a miss asks Canny
ListCategories(p) ==
  /\ lpc[p] = "idle"
  /\ Get(CategoriesKey)
  /\ IF ret'.value # "null"
     THEN /\ listed' = [listed EXCEPT ![p] = ret'.value]
          /\ UNCHANGED lpc
     ELSE /\ lpc' = [lpc EXCEPT ![p] = "fetching"]
          /\ UNCHANGED listed
  /\ UNCHANGED <<upstream, fetched, crpc, acked>>

\* Canny answers client.listCategories(boardID) with the categories it has now
CannyListsCategories(p) ==
  /\ lpc[p] = "fetching"
  /\ fetched' = [fetched EXCEPT ![p] = CategoryList(upstream)]
  /\ lpc' = [lpc EXCEPT ![p] = "responded"]
  /\ UNCHANGED <<cacheVars, upstream, listed, crpc, acked>>

\* Canny's answer is an error: client.listCategories rejects and the handler throws
CannyListFails(p) ==
  /\ lpc[p] = "fetching"
  /\ lpc' = [lpc EXCEPT ![p] = "idle"]
  /\ UNCHANGED <<cacheVars, upstream, fetched, listed, crpc, acked>>

\* listCategories.handler after its await: cache.set(cacheKey, result, 3600); return result
ListStores(p) ==
  /\ lpc[p] = "responded"
  /\ Set(CategoriesKey, fetched[p], CategoriesTTL)
  /\ listed' = [listed EXCEPT ![p] = fetched[p]]
  /\ lpc' = [lpc EXCEPT ![p] = "idle"]
  /\ UNCHANGED <<upstream, fetched, crpc, acked>>

\* createCategory.handler up to its await: client.createCategory(...) is sent
CreateCategory(c) ==
  /\ crpc[c].pc = "idle"
  /\ upstream + Cardinality({d \in CreateCalls : crpc[d].pc = "creating"}) < MaxCreates
  /\ crpc' = [crpc EXCEPT ![c] = [pc |-> "creating", at |-> 0]]
  /\ UNCHANGED <<cacheVars, upstream, lpc, fetched, listed, acked>>

\* Canny creates the category
CannyCreatesCategory(c) ==
  /\ crpc[c].pc = "creating"
  /\ upstream' = upstream + 1
  /\ crpc' = [crpc EXCEPT ![c] = [pc |-> "created", at |-> upstream + 1]]
  /\ UNCHANGED <<cacheVars, lpc, fetched, listed, acked>>

\* Canny refuses: client.createCategory rejects, the handler throws before cache.delete
CannyCreateFails(c) ==
  /\ crpc[c].pc = "creating"
  /\ crpc' = [crpc EXCEPT ![c] = [pc |-> "idle", at |-> 0]]
  /\ UNCHANGED <<cacheVars, upstream, lpc, fetched, listed, acked>>

\* createCategory.handler after its await: cache.delete(cacheKey); return
CreateInvalidates(c) ==
  /\ crpc[c].pc = "created"
  /\ Delete(CategoriesKey)
  /\ acked' = IF crpc[c].at > acked THEN crpc[c].at ELSE acked
  /\ crpc' = [crpc EXCEPT ![c] = [pc |-> "idle", at |-> 0]]
  /\ UNCHANGED <<upstream, lpc, fetched, listed>>

InitCategories ==
  /\ RetryIdle /\ ClassifyIdle /\ CacheInit /\ PageIdle
  /\ StrategyIdle /\ ServerIdle /\ BatchIdle /\ CategoryInit /\ ConcurrentIdle

\* what the category handlers leave alone
categoryFrame ==
  <<retryVars, classifyVars, pageVars, strategyVars, serverVars, batchVars, inflight>>

NextCategories ==
  \/ (\E p \in ListCalls : ListCategories(p)) /\ UNCHANGED categoryFrame
  \/ (\E p \in ListCalls : CannyListsCategories(p)) /\ UNCHANGED categoryFrame
  \/ (\E p \in ListCalls : CannyListFails(p)) /\ UNCHANGED categoryFrame
  \/ (\E p \in ListCalls : ListStores(p)) /\ UNCHANGED categoryFrame
  \/ (\E c \in CreateCalls : CreateCategory(c)) /\ UNCHANGED categoryFrame
  \/ (\E c \in CreateCalls : CannyCreatesCategory(c)) /\ UNCHANGED categoryFrame
  \/ (\E c \in CreateCalls : CannyCreateFails(c)) /\ UNCHANGED categoryFrame
  \/ (\E c \in CreateCalls : CreateInvalidates(c)) /\ UNCHANGED categoryFrame

SpecCategories == InitCategories /\ [][NextCategories]_vars

\* C28 as claimed: once canny_create_category has returned, the cache entry of the
\* board's categories never holds a list that Canny gave before that category existed.
C28_NoStaleCategoryList ==
  (kpc = "ready" /\ lpc # <<>> /\ CategoriesKey \in DOMAIN entries) =>
    CountOf(entries[CategoriesKey].value) >= acked

----------------------------------------------------------------------------
(* Concurrent withRetry calls (errors.ts 88-122, as made by CannyClient.request,  *)
(* client.ts 49-74), interleaved at their suspension points: await fn() and        *)
(* await sleep(delay).  Each call has its own maxRetries, baseDelay, attempt and   *)
(* lastError; nothing outside the calls is read or written.                        *)

\* the concurrent calls
RetryCalls == 1..2

\* largest maxRetries of a concurrent call
MaxSharedAttempts == 2

\* baseDelay values of the concurrent calls (ms)
SharedBaseDelays == {10, 50}

\* what fn() of a concurrent call may reject with
SharedErrors ==
  { CannyAPIError("Server error", 500, TRUE),
    ValidationError("Invalid input"),
    RateLimitError(2),
    RawFailure(500, 0, "", "Request failed with status code 500", <<>>) }

\* the value fn() of a concurrent call may resolve with
SharedValue == [cls |-> "value", v |-> "success"]

\* withRetry(fn, m, b) is called: its locals, awaiting the first fn()
Called(m, b) ==
  [pc |-> "attempt", maxRetries |-> m, baseDelay |-> b, attempt |-> 0,
   lastError |-> NoError, outcome |-> NoValue, calls |-> 0, outcomes |-> <<>>,
   delays |-> <<>>]

\* return await fn(): fn resolves with v
Succeeded(s, v) ==
  [s EXCEPT !.calls = @ + 1,
            !.outcomes = Append(@, [attempt |-> s.attempt, ok |-> TRUE, value |-> v]),
            !.pc = "returned",
            !.outcome = v]

\* after attempt++ : the next iteration, or the loop ends and lastError is thrown
Iterated(s, att, err) ==
  IF LoopContinues(att, s.maxRetries)
  THEN [s EXCEPT !.attempt = att, !.pc = "attempt"]
  ELSE [s EXCEPT !.attempt = att, !.pc = "thrown", !.outcome = err]

\* mutant: attempt is one counter for all the calls in flight
Failed_SharedAttempt(s, error) ==
  LET att == inflight[1].attempt + inflight[2].attempt
      t == [s EXCEPT !.calls = @ + 1,
                     !.outcomes = Append(@, [attempt |-> att, ok |-> FALSE,
                                             error |-> error]),
                     !.lastError = error]
      cannyError == Classified(error)
      delay == BackoffDelay(cannyError, s.baseDelay, att)
  IN IF NotRetryable(cannyError)
     THEN [t EXCEPT !.pc = "thrown", !.outcome = cannyError]
     ELSE IF ShouldSleep(att, s.maxRetries)
     THEN [t EXCEPT !.pc = "sleep",
                    !.delays = Append(@, [after |-> att, ms |-> delay])]
     ELSE Iterated(t, s.attempt + 1, error)

\* fn rejects with error: the catch block, up to the next suspension or the end
Failed(s, error) ==
  LET t == [s EXCEPT !.calls = @ + 1,
                     !.outcomes = Append(@, [attempt |-> s.attempt, ok |-> FALSE,
                                             error |-> error]),
                     !.lastError = error]
      cannyError == Classified(error)
      delay == BackoffDelay(cannyError, s.baseDelay, s.attempt)
  IN IF NotRetryable(cannyError)
     THEN [t EXCEPT !.pc = "thrown", !.outcome = cannyError]
     ELSE IF ShouldSleep(s.attempt, s.maxRetries)
     THEN [t EXCEPT !.pc = "sleep",
                    !.delays = Append(@, [after |-> s.attempt, ms |-> delay])]
     ELSE Iterated(t, s.attempt + 1, error)

\* the timer of sleep(delay) fires: attempt++ and the loop condition
Slept(s) == Iterated(s, s.attempt + 1, s.lastError)

ConcurrentInit ==
  inflight \in [RetryCalls -> {Called(m, b) : m \in 1..MaxSharedAttempts,
                                              b \in SharedBaseDelays}]

\* fn() of call c resolves
CallSucceeds(c) ==
  /\ inflight[c].pc = "attempt"
  /\ inflight' = [inflight EXCEPT ![c] = Succeeded(@, SharedValue)]

\* fn() of call c rejects
CallFails(c, error) ==
  /\ inflight[c].pc = "attempt"
  /\ inflight' = [inflight EXCEPT ![c] = Failed(@, error)]

\* the sleep of call c is over
CallSleepDone(c) ==
  /\ inflight[c].pc = "sleep"
  /\ inflight' = [inflight EXCEPT ![c] = Slept(@)]

InitConcurrent ==
  CoreIdle /\ StrategyIdle /\ ServerIdle /\ BatchIdle /\ CategoryIdle /\ ConcurrentInit

\* what the retry calls leave alone
concurrentFrame == <<coreVars, strategyVars, serverVars, batchVars, categoryVars>>

NextConcurrent ==
  \/ (\E c \in RetryCalls : CallSucceeds(c)) /\ UNCHANGED concurrentFrame
  \/ (\E c \in RetryCalls, error \in SharedErrors : CallFails(c, error))
       /\ UNCHANGED concurrentFrame
  \/ (\E c \in RetryCalls : CallSleepDone(c)) /\ UNCHANGED concurrentFrame

SpecConcurrent == InitConcurrent /\ [][NextConcurrent]_vars

\* the delay withRetry computes after a failure with e at attempt att, base delay b
OwnDelay(e, b, att) ==
  IF Classified(e).cls = "RateLimitError" THEN Classified(e).retryAfter * 1000
  ELSE b * (2 ^ att)

\* what one call shows follows from its own parameters and the outcomes of its own fn
OwnRun(s) ==
  LET n == Len(s.outcomes)
  IN /\ s.calls = n /\ n <= s.maxRetries
     /\ \A i \in 1..n : s.outcomes[i].attempt = i - 1
     /\ \A i \in 1..(n - 1) :
          ~s.outcomes[i].ok /\ Classified(s.outcomes[i].error).retryable
     /\ \A j \in DOMAIN s.delays :
          /\ s.delays[j].after = j - 1
          /\ j <= n
          /\ s.delays[j].ms = OwnDelay(s.outcomes[j].error, s.baseDelay, j - 1)
     /\ s.pc = "attempt" => (Len(s.delays) = n /\ s.attempt = n)
     /\ s.pc = "sleep" => (Len(s.delays) = n /\ n >= 1 /\ n < s.maxRetries)
     /\ s.pc = "returned" =>
          (n >= 1 /\ s.outcomes[n].ok /\ s.outcome = s.outcomes[n].value
             /\ Len(s.delays) = n - 1)
     /\ s.pc = "thrown" =>
          /\ n >= 1 /\ ~s.outcomes[n].ok /\ Len(s.delays) = n - 1
          /\ IF Classified(s.outcomes[n].error).retryable
             THEN n = s.maxRetries /\ s.outcome = s.outcomes[n].error
             ELSE s.outcome = Classified(s.outcomes[n].error)

\* C29: for concurrent withRetry calls interleaved at their suspension points, the
\* invocations, the delays and the outcome of each call follow from its own parameters
\* and the outcomes of its own fn alone, and within a call an attempt starts only after
\* the attempt before it has failed and its delay has elapsed.
C29_CallsShareNoState ==
  \A c \in DOMAIN inflight : OwnRun(inflight[c])

\* both calls are suspended in their sleep at once, with different delays, the first
\* after a rate limit and the second after a server error
C29_Witness ==
  /\ inflight # <<>>
  /\ inflight[1].pc = "sleep" /\ inflight[2].pc = "sleep"
  /\ inflight[1].delays = <<[after |-> 0, ms |-> 2000]>>
  /\ inflight[2].delays = <<[after |-> 0, ms |-> 50]>>

====
